---- MODULE Spec2Model ----
(***************************************************************************)
(* A model of the algae crate: the property-verified binary operations of  *)
(* src/src/mapping.rs (input history, windowed sampling, law checks) and   *)
(* the predicate-composed set of src/src/algaeset.rs.                      *)
(*                                                                         *)
(* SpecOp  : one operation wrapper and the calls made on it.               *)
(* SpecSet : one AlgaeSet and the operations applied to it.                *)
(* SpecLaws: an operation wrapper over more functions, called with the     *)
(*           arguments of the doc examples.                                *)
(* SpecQuery: the queries on an operation wrapper: equality of law values, *)
(*           is, binop_is_invertible, binop_has_invertible_identity.       *)
(* SpecStructure: a named structure of magma.rs built on an operation      *)
(*           wrapper, converted to weaker structures, and called.          *)
(* SpecSampler: the sampler `permutations` on its own, on sequences of     *)
(*           every length.                                                 *)
(* SpecGroup: the wrappers that declare Invertible, over genuine groups.   *)
(* SpecInterleaved: two calls of with on one operation, interleaved        *)
(*           statement by statement.                                       *)
(***************************************************************************)
EXTENDS Integers, Sequences, FiniteSets

VARIABLES
    \* --- one operation wrapper (mapping.rs) ---
    kind,           \* which wrapper struct it is (AbelianOperation, ...)
    op,             \* the wrapped function `op`
    inv,            \* the inverse function `inv` (Invertible/Group wrappers)
    identity,       \* the `identity` field (wrappers that have one)
    history,        \* the `history` Vec
    result,         \* what the last call of `with` returned
    calls,          \* every call made so far: its arguments and its result
    prev_history,   \* `history` as it was when the last call began
    query,          \* the last query made of the operation, and its outcome
    structure,      \* the named structure (magma.rs) that borrows the operation
    sample,         \* the last call of the sampler `permutations` on its own
    callers,        \* the calls of `with` in progress: how far each one is
    \* --- one AlgaeSet (algaeset.rs) ---
    pos_conditions, \* the inclusion predicates, in order
    neg_conditions, \* the exclusion predicates, in order
    last_op,        \* the last operation applied to the set, has() before it, and
                    \* whether it repeats the operation before it
    has_result      \* what the last call of `has` returned

opVars  == <<kind, op, inv, identity, history, result, calls, prev_history, query,
             structure, sample, callers>>
setVars == <<pos_conditions, neg_conditions, last_op, has_result>>
vars    == <<opVars, setVars>>

(***************************************************************************)
(* Bounds of the model.                                                    *)
(***************************************************************************)
MaxVal   == 1      \* arguments of `with` and identities are drawn from 0..MaxVal
MaxCalls == 3      \* calls of `with` made on the operation
MaxSampleVal  == 3 \* the sampler alone is given sequences over 1..MaxSampleVal,
MaxSampleLen  == 4 \* of at most MaxSampleLen elements,
MaxGroupSize  == 3 \* and a group size in 1..MaxGroupSize

Values == 0..MaxVal

(***************************************************************************)
(* The wrapped functions.  The doc examples of mapping.rs wrap addition,   *)
(* subtraction and multiplication (and use the latter two as inverses).    *)
(***************************************************************************)
OpNames  == {"add", "sub", "mul"}
InvNames == {"sub", "mul"}

\* Further functions a caller may wrap: the left projection |a, _| a, the
\* absolute difference |a, b| (a - b).abs(), and the float division
\* |a, b| a / b of the AssociativeOperation doc example.
MoreOpNames  == {"left", "absdiff"}
FloatOpNames == {"div"}

\* A float is modelled as the positive rational it equals: <<n, d>> stands
\* for n / d in lowest terms.  The floats used are small positive integers
\* and their quotients, for which f64 comparison agrees with the rationals.
RECURSIVE GCD(_, _)
GCD(a, b) == IF b = 0 THEN a ELSE GCD(b, a % b)

Float(n) == <<n, 1>>

Quotient(a, b) ==
    LET n == a[1] * b[2]
        d == a[2] * b[1]
    IN  <<n \div GCD(n, d), d \div GCD(n, d)>>


\* A function over another domain: the composition of permutations of three
\* letters (a permutation is the tuple of its images; in Rust a [usize; 3],
\* which is Copy + PartialEq), and the inverse function that goes with it,
\* |x, y| compose(x, inverse(y)).
GroupOpNames == {"compose"}
compose(a, b) == [i \in DOMAIN b |-> a[b[i]]]
inverse(a) == [i \in DOMAIN a |-> CHOOSE j \in DOMAIN a : a[j] = i]
Apply(f, a, b) ==
    CASE f = "add" -> a + b
      [] f = "sub" -> a - b
      [] f = "mul" -> a * b
      [] f = "left" -> a
      [] f = "absdiff" -> IF a >= b THEN a - b ELSE b - a
      [] f = "div" -> Quotient(a, b)
      [] f = "compose" -> compose(a, b)
      [] f = "compose_inverse" -> compose(a, inverse(b))

(***************************************************************************)
(* permutations: the chunks of exactly group_size elements of the          *)
(* collection, then those of the reversed collection.                      *)
(***************************************************************************)
Reverse(s) == [i \in 1..Len(s) |-> s[Len(s) + 1 - i]]

\* slice::chunks(group_size) with the `chunk.len() != group_size` skip
\* slice::windows(group_size): every run of group_size neighbours
SlidingWindows(s, group_size) ==
    [i \in 1..(IF Len(s) >= group_size THEN Len(s) - group_size + 1 ELSE 0) |->
        SubSeq(s, i, i + group_size - 1)]
FullChunks(s, group_size) ==
    [i \in 1..(Len(s) \div group_size) |->
        SubSeq(s, (i - 1) * group_size + 1, i * group_size)]

\* a sampler that keeps a trailing chunk shorter than group_size
permutations_keeps_short_chunks(collection, group_size) ==
    LET chunks(s) ==
            [i \in 1..((Len(s) + group_size - 1) \div group_size) |->
                SubSeq(s, (i - 1) * group_size + 1,
                       IF i * group_size <= Len(s) THEN i * group_size ELSE Len(s))]
    IN  chunks(collection) \o chunks(Reverse(collection))

\* a sampler that takes the chunks of the collection only
permutations_forward_only(collection, group_size) ==
    FullChunks(collection, group_size)
permutations(collection, group_size) ==
    FullChunks(collection, group_size) \o FullChunks(Reverse(collection), group_size)

\* a call of the sampler: its arguments and what it returned
Sampling(collection, group_size) ==
    [collection |-> collection, group_size |-> group_size,
     groupings |-> permutations(collection, group_size)]

NotSampled == [collection |-> <<>>, group_size |-> 0, groupings |-> <<>>]

(***************************************************************************)
(* PropertyType and its checks.                                            *)
(***************************************************************************)
Commutative      == [tag |-> "Commutative",  identity |-> 0, inv |-> "none"]
Abelian          == [tag |-> "Abelian",      identity |-> 0, inv |-> "none"]
Associative      == [tag |-> "Associative",  identity |-> 0, inv |-> "none"]
Cancellative     == [tag |-> "Cancellative", identity |-> 0, inv |-> "none"]
WithIdentity(e)  == [tag |-> "WithIdentity", identity |-> e, inv |-> "none"]
Invertible(e, f) == [tag |-> "Invertible",   identity |-> e, inv |-> f]

\* a commutativity check that compares each op(a, b) with itself
commutativity_compares_same_order(f, domain_sample) ==
    IF Len(domain_sample) < 2 THEN TRUE
    ELSE LET P(pair) == Apply(f, pair[1], pair[2]) = Apply(f, pair[1], pair[2])
             pairs == permutations(domain_sample, 2)
         IN  \A i \in DOMAIN pairs : P(pairs[i])
\* a commutativity check over every pair of history values (cayley_product)
commutativity_over_all_pairs(f, domain_sample) ==
    \A i, j \in DOMAIN domain_sample :
        Apply(f, domain_sample[i], domain_sample[j])
          = Apply(f, domain_sample[j], domain_sample[i])
commutativity_holds_over(f, domain_sample) ==
    IF Len(domain_sample) < 2 THEN TRUE
    ELSE LET P(pair) == Apply(f, pair[1], pair[2]) = Apply(f, pair[2], pair[1])
             pairs == permutations(domain_sample, 2)
         IN  \A i \in DOMAIN pairs : P(pairs[i])

\* an associativity check that groups both sides to the left
associativity_compares_same_grouping(f, domain_sample) ==
    IF Len(domain_sample) < 3 THEN TRUE
    ELSE LET P(triple) ==
                 Apply(f, Apply(f, triple[1], triple[2]), triple[3])
                   = Apply(f, Apply(f, triple[1], triple[2]), triple[3])
             triples == permutations(domain_sample, 3)
         IN  \A i \in DOMAIN triples : P(triples[i])
associativity_holds_over(f, domain_sample) ==
    IF Len(domain_sample) < 3 THEN TRUE
    ELSE LET P(triple) ==
                 Apply(f, Apply(f, triple[1], triple[2]), triple[3])
                   = Apply(f, triple[1], Apply(f, triple[2], triple[3]))
             triples == permutations(domain_sample, 3)
         IN  \A i \in DOMAIN triples : P(triples[i])

\* an identity check that asks for op(x, e) = x only

\* an identity check that compares with the identity instead of the element
identity_returns_identity(f, domain_sample, e) ==
    LET P(x) == (e = Apply(f, e, x)) /\ (e = Apply(f, x, e))
    IN  \A i \in DOMAIN domain_sample : P(domain_sample[i])
identity_right_only(f, domain_sample, e) ==
    LET P(x) == x = Apply(f, x, e)
    IN  \A i \in DOMAIN domain_sample : P(domain_sample[i])
identity_holds_over(f, domain_sample, e) ==
    LET P(x) == (x = Apply(f, e, x)) /\ (x = Apply(f, x, e))
    IN  \A i \in DOMAIN domain_sample : P(domain_sample[i])

\* a cancellativity check that asks for the right form only
cancellative_right_only(f, domain_sample) ==
    IF Len(domain_sample) < 3 THEN TRUE
    ELSE LET R(triple) ==
                 IF Apply(f, triple[2], triple[1]) = Apply(f, triple[3], triple[1])
                 THEN triple[2] = triple[3] ELSE TRUE
             triples == permutations(domain_sample, 3)
         IN  \A i \in DOMAIN triples : R(triples[i])
cancellative_holds_over(f, domain_sample) ==
    IF Len(domain_sample) < 3 THEN TRUE
    ELSE LET L(triple) ==
                 IF Apply(f, triple[1], triple[2]) = Apply(f, triple[1], triple[3])
                 THEN triple[2] = triple[3] ELSE TRUE
             R(triple) ==
                 IF Apply(f, triple[2], triple[1]) = Apply(f, triple[3], triple[1])
                 THEN triple[2] = triple[3] ELSE TRUE
             triples == permutations(domain_sample, 3)
             left_cancellative  == \A i \in DOMAIN triples : L(triples[i])
             right_cancellative == \A i \in DOMAIN triples : R(triples[i])
         IN  left_cancellative /\ right_cancellative

\* an invertibility check that asks for inv(a, a) = e only
invertibility_self_inverse_only(f, g, domain_sample, e) ==
    IF Len(domain_sample) < 2 THEN TRUE
    ELSE LET P(pair) == Apply(g, pair[1], pair[1]) = e
             pairs == permutations(domain_sample, 2)
         IN  \A i \in DOMAIN pairs : P(pairs[i])
invertibility_holds_over(f, g, domain_sample, e) ==
    IF Len(domain_sample) < 2 THEN TRUE
    ELSE LET P(pair) ==
                 /\ Apply(g, pair[1], pair[1]) = e
                 /\ Apply(g, Apply(f, pair[1], pair[2]), pair[2]) = pair[1]
                 /\ Apply(g, Apply(f, pair[2], pair[1]), pair[2]) = pair[1]
             pairs == permutations(domain_sample, 2)
         IN  \A i \in DOMAIN pairs : P(pairs[i])

\* a dispatch that sends Associative to the pair check of commutativity
holds_over_triples_as_pairs(property, f, domain_sample) ==
    CASE property.tag \in {"Commutative", "Abelian", "Associative"} ->
             commutativity_holds_over(f, domain_sample)
      [] property.tag = "Cancellative" ->
             cancellative_holds_over(f, domain_sample)
      [] property.tag = "WithIdentity" ->
             identity_holds_over(f, domain_sample, property.identity)
      [] property.tag = "Invertible" ->
             invertibility_holds_over(f, property.inv, domain_sample, property.identity)
holds_over(property, f, domain_sample) ==
    CASE property.tag \in {"Commutative", "Abelian"} ->
             commutativity_holds_over(f, domain_sample)
      [] property.tag = "Associative" ->
             associativity_holds_over(f, domain_sample)
      [] property.tag = "Cancellative" ->
             cancellative_holds_over(f, domain_sample)
      [] property.tag = "WithIdentity" ->
             identity_holds_over(f, domain_sample, property.identity)
      [] property.tag = "Invertible" ->
             invertibility_holds_over(f, property.inv, domain_sample, property.identity)

(***************************************************************************)
(* The wrappers: each one's declared laws, in the order of its             *)
(* properties() Vec.                                                       *)
(***************************************************************************)
Kinds == {"AbelianOperation", "AssociativeOperation", "CancellativeOperation",
          "IdentityOperation", "MonoidOperation", "LoopOperation",
          "InvertibleOperation", "GroupOperation"}
KindsWithIdentity == {"IdentityOperation", "MonoidOperation", "LoopOperation",
                      "InvertibleOperation", "GroupOperation"}
KindsWithInverse  == {"InvertibleOperation", "GroupOperation"}

\* properties() with the identity law moved to the front of each Vec
properties_identity_first(k, e, g) ==
    CASE k = "AbelianOperation"      -> <<Commutative, Abelian>>
      [] k = "AssociativeOperation"  -> <<Associative>>
      [] k = "CancellativeOperation" -> <<Cancellative>>
      [] k = "IdentityOperation"     -> <<WithIdentity(e)>>
      [] k = "MonoidOperation"       -> <<WithIdentity(e), Associative>>
      [] k = "LoopOperation"         -> <<WithIdentity(e), Cancellative>>
      [] k = "InvertibleOperation"   -> <<WithIdentity(e), Invertible(e, g)>>
      [] k = "GroupOperation"        -> <<WithIdentity(e), Associative, Invertible(e, g)>>

properties(k, e, g) ==
    CASE k = "AbelianOperation"      -> <<Commutative, Abelian>>
      [] k = "AssociativeOperation"  -> <<Associative>>
      [] k = "CancellativeOperation" -> <<Cancellative>>
      [] k = "IdentityOperation"     -> <<WithIdentity(e)>>
      [] k = "MonoidOperation"       -> <<Associative, WithIdentity(e)>>
      [] k = "LoopOperation"         -> <<Cancellative, WithIdentity(e)>>
      [] k = "InvertibleOperation"   -> <<WithIdentity(e), Invertible(e, g)>>
      [] k = "GroupOperation"        -> <<Associative, WithIdentity(e), Invertible(e, g)>>

\* the match of BinaryOperation::with that turns a failed law into its error
ErrorOf(property) ==
    CASE property.tag \in {"Commutative", "Abelian"} -> "CommutativityError"
      [] property.tag = "Associative"  -> "AssociativityError"
      [] property.tag = "Cancellative" -> "CancellativityError"
      [] property.tag = "WithIdentity" -> "IdentityError"
      [] property.tag = "Invertible"   -> "InvertibilityError"

NoResult  == [tag |-> "None", value |-> 0, error |-> ""]
Ok(v)     == [tag |-> "Ok",   value |-> v, error |-> ""]
Err(name) == [tag |-> "Err",  value |-> 0, error |-> name]

\* a cache that keeps one copy of each value
cache_unique(h, input) ==
    IF \E i \in DOMAIN h : h[i] = input THEN h ELSE Append(h, input)

\* fn cache(&mut self, input): self.history.push(input)
cache(h, input) == Append(h, input)

\* the Result of the loop over properties() of BinaryOperation::with, the
\* laws being checked over the history `checked`
verdict(k, f, g, e, checked, left, right) ==
    LET props   == properties(k, e, g)
        failing == {i \in 1..Len(props) : ~holds_over(props[i], f, checked)}
        first   == CHOOSE i \in failing : \A j \in failing : i <= j
    IN  IF failing = {} THEN Ok(Apply(f, left, right))
        ELSE Err(ErrorOf(props[first]))

\* a with that checks the laws before it caches its arguments

\* a with that checks the laws over its own two arguments only
with_checks_own_arguments(k, f, g, e, h, left, right) ==
    [history |-> cache(cache(h, left), right),
     result  |-> verdict(k, f, g, e, <<left, right>>, left, right)]
with_check_then_cache(k, f, g, e, h, left, right) ==
    [history |-> cache(cache(h, left), right),
     result  |-> verdict(k, f, g, e, h, left, right)]

\* a with that caches its arguments only when the call succeeds
with_cache_on_success(k, f, g, e, h, left, right) ==
    LET h2 == cache(cache(h, left), right)
        r  == verdict(k, f, g, e, h2, left, right)
    IN  [history |-> IF r.tag = "Ok" THEN h2 ELSE h, result |-> r]

\* BinaryOperation::with on a wrapper of kind k holding f, g, e and history h:
\* the history it leaves and the Result it returns.
with(k, f, g, e, h, left, right) ==
    LET h2 == cache(cache(h, left), right)
    IN  [history |-> h2, result |-> verdict(k, f, g, e, h2, left, right)]

(***************************************************************************)
(* The operation wrapper as a state machine.                               *)
(***************************************************************************)
\* XxxOperation::new: an empty history; the wrappers without an identity or
\* an inverse field have none to choose.
(***************************************************************************)
(* Queries: equality of PropertyType values, is, and the two binop_        *)
(* helpers.                                                                *)
(***************************************************************************)
\* impl PartialEq for PropertyType: a match on the variant of self
\* the equality #[derive(PartialEq)] would give: tag and payload
eq_derived(self_, other) == self_ = other

\* impl PartialEq for PropertyType: a match on the variant of self; here its
\* Associative arm also accepts Cancellative
eq_associative_matches_cancellative(self_, other) ==
    CASE self_.tag \in {"Commutative", "Abelian"} ->
             (other.tag = "Commutative") \/ (other.tag = "Abelian")
      [] self_.tag = "Associative"  ->
             (other.tag = "Associative") \/ (other.tag = "Cancellative")
      [] self_.tag = "Cancellative" -> other.tag = "Cancellative"
      [] self_.tag = "WithIdentity" -> other.tag = "WithIdentity"
      [] self_.tag = "Invertible"   -> other.tag = "Invertible"
eq(self_, other) ==
    CASE self_.tag \in {"Commutative", "Abelian"} ->
             (other.tag = "Commutative") \/ (other.tag = "Abelian")
      [] self_.tag = "Associative"  -> other.tag = "Associative"
      [] self_.tag = "Cancellative" -> other.tag = "Cancellative"
      [] self_.tag = "WithIdentity" -> other.tag = "WithIdentity"
      [] self_.tag = "Invertible"   -> other.tag = "Invertible"

\* self.properties().contains(&property)
is(props, property) == \E i \in DOMAIN props : eq(props[i], property)

binop_is_invertible(props) ==
    \E i \in DOMAIN props : props[i].tag = "Invertible"

\* what a query does: it returns a bool or it panics
Returned(b) == [tag |-> "Returned", value |-> b]
Panicked    == [tag |-> "Panicked", value |-> FALSE]

\* a helper that asks is(Invertible(e, _)) instead of comparing identities
binop_has_invertible_identity_by_is(props, e) ==
    IF ~binop_is_invertible(props) THEN Panicked
    ELSE Returned(is(props, Invertible(e, "sub")))
binop_has_invertible_identity(props, e) ==
    IF ~binop_is_invertible(props) THEN Panicked
    ELSE LET invertible == {i \in DOMAIN props : props[i].tag = "Invertible"}
             first == CHOOSE i \in invertible : \A j \in invertible : i <= j
         IN  Returned(props[first].identity = e)

NotQueried ==
    [name |-> "none", left |-> Commutative, right |-> Commutative,
     identity |-> 0, outcome |-> Returned(FALSE)]
(***************************************************************************)
(* The named structures of magma.rs: what each constructor asserts of the  *)
(* operation, the conversions offered, and the delegation of with.         *)
(***************************************************************************)
Structures == {"Magma", "UnitalMagma", "Groupoid", "Quasigroup",
               "Monoid", "Loop", "Group"}
StructuresWithIdentity == {"UnitalMagma", "Monoid", "Loop", "Group"}

\* the assert! lines of Xxx::new, on the operation's properties()

\* constructors that also try the identity on itself with the operation
asserts_pass_tries_identity(name, props, e) ==
    /\ name \in StructuresWithIdentity => Apply(op, e, e) = e
    /\ CASE name = "Magma"       -> TRUE
         [] name = "UnitalMagma" -> is(props, WithIdentity(e))
         [] name = "Groupoid"    -> is(props, Associative)
         [] name = "Quasigroup"  -> is(props, Cancellative)
         [] name = "Monoid"      -> is(props, Associative) /\ is(props, WithIdentity(e))
         [] name = "Loop"        -> is(props, Cancellative) /\ is(props, WithIdentity(e))
         [] name = "Group"       ->
                /\ is(props, Associative)
                /\ is(props, WithIdentity(e))
                /\ binop_is_invertible(props)
                /\ binop_has_invertible_identity(props, e) = Returned(TRUE)
asserts_pass(name, props, e) ==
    CASE name = "Magma"       -> TRUE
      [] name = "UnitalMagma" -> is(props, WithIdentity(e))
      [] name = "Groupoid"    -> is(props, Associative)
      [] name = "Quasigroup"  -> is(props, Cancellative)
      [] name = "Monoid"      -> is(props, Associative) /\ is(props, WithIdentity(e))
      [] name = "Loop"        -> is(props, Cancellative) /\ is(props, WithIdentity(e))
      [] name = "Group"       ->
             /\ is(props, Associative)
             /\ is(props, WithIdentity(e))
             /\ binop_is_invertible(props)
             /\ binop_has_invertible_identity(props, e) = Returned(TRUE)

\* the impl Into / impl From blocks: <<source, target>>
Conversions ==
    {<<"UnitalMagma", "Magma">>, <<"Groupoid", "Magma">>, <<"Quasigroup", "Magma">>,
     <<"Monoid", "Magma">>, <<"Monoid", "Groupoid">>, <<"Monoid", "UnitalMagma">>,
     <<"Loop", "Magma">>, <<"Loop", "UnitalMagma">>, <<"Loop", "Quasigroup">>,
     <<"Group", "Magma">>, <<"Group", "UnitalMagma">>, <<"Group", "Quasigroup">>}

\* the two callers of SpecInterleaved, and a caller that has not begun
Callers == {"first", "second"}
Idle ==
    [pc |-> "idle", left |-> 0, right |-> 0, before |-> <<>>, checked |-> <<>>,
     result |-> NoResult]
NoCallers == [c \in Callers |-> Idle]

NoStructure ==
    [name |-> "none", aset |-> [pos_conditions |-> <<>>, neg_conditions |-> <<>>],
     identity |-> 0, panicked |-> FALSE, from |-> "none", calls_before |-> 0]
InitOp ==
    /\ kind \in Kinds
    /\ op \in OpNames
    /\ inv \in (IF kind \in KindsWithInverse THEN InvNames ELSE {"none"})
    /\ identity \in (IF kind \in KindsWithIdentity THEN Values ELSE {0})
    /\ history = <<>>
    /\ result = NoResult
    /\ calls = <<>>
    /\ prev_history = <<>>
    /\ query = NotQueried
    /\ structure = NoStructure
    /\ sample = NotSampled
    /\ callers = NoCallers

With(left, right) ==
    /\ Len(calls) < MaxCalls
    /\ LET r == with(kind, op, inv, identity, history, left, right)
       IN  /\ history' = r.history
           /\ result' = r.result
           /\ calls' = Append(calls, [left |-> left, right |-> right,
                                      result |-> r.result])
    /\ prev_history' = history
    /\ UNCHANGED <<kind, op, inv, identity, query, structure, sample>>
    /\ UNCHANGED <<callers, setVars>>

NextOp == \E left, right \in Values : With(left, right)

(***************************************************************************)
(* AlgaeSet.  A condition (a Box<dyn Fn(E) -> bool>) is represented by the *)
(* set of elements of E it returns true for; a closure that captures       *)
(* another set owns it, so its answers never change after it is built.     *)
(***************************************************************************)
MaxElem     == 1   \* the element type E is 0..MaxElem
MaxConds    == 3   \* conditions held by the set, both lists together
MaxNewConds == 2   \* conditions passed to AlgaeSet::new

Elem       == 0..MaxElem
Conditions == SUBSET Elem

AlgaeSet(pos, neg) == [pos_conditions |-> pos, neg_conditions |-> neg]

\* a new that keeps only the first of the given conditions
new_first_only(conditions) ==
    AlgaeSet(IF conditions = <<>> THEN <<>> ELSE <<conditions[1]>>, <<>>)
new(conditions) == AlgaeSet(conditions, <<>>)

mono(condition) == new(<<condition>>)

all == AlgaeSet(<<Elem>>, <<>>)

\* a has in which a matching inclusion predicate wins
has_inclusion_wins(s, element) ==
    IF \E i \in DOMAIN s.pos_conditions : element \in s.pos_conditions[i]
    THEN TRUE
    ELSE FALSE

has(s, element) ==
    IF \E i \in DOMAIN s.neg_conditions : element \in s.neg_conditions[i]
    THEN FALSE
    ELSE \E i \in DOMAIN s.pos_conditions : element \in s.pos_conditions[i]

\* an add that leaves the exclusion predicates alone
add_push_only(s, element) ==
    AlgaeSet(Append(s.pos_conditions, {element}), s.neg_conditions)

add(s, element) ==
    LET keep(c) == ~(element \in c)
    IN  AlgaeSet(Append(s.pos_conditions, {element}),
                 SelectSeq(s.neg_conditions, keep))

\* a remove that only filters the inclusion predicates
remove_retain_only(s, element) ==
    LET keep(c) == element \in c
    IN  AlgaeSet(SelectSeq(s.pos_conditions, keep), s.neg_conditions)

\* a remove that answers a second remove(e) by taking the exclusion back
remove_toggles(s, element) ==
    IF \E i \in DOMAIN s.neg_conditions : s.neg_conditions[i] = {element}
    THEN AlgaeSet(s.pos_conditions,
                  SelectSeq(s.neg_conditions, LAMBDA c : c # {element}))
    ELSE AlgaeSet(SelectSeq(s.pos_conditions, LAMBDA c : element \in c),
                  Append(s.neg_conditions, {element}))
remove(s, element) ==
    LET keep(c) == element \in c
    IN  AlgaeSet(SelectSeq(s.pos_conditions, keep),
                 Append(s.neg_conditions, {element}))

or(s, other) ==
    AlgaeSet(Append(s.pos_conditions, {x \in Elem : has(other, x)}),
             s.neg_conditions)

and_unnegated(s, other) ==
    AlgaeSet(s.pos_conditions,
             Append(s.neg_conditions, {x \in Elem : has(other, x)}))
and(s, other) ==
    AlgaeSet(s.pos_conditions,
             Append(s.neg_conditions, {x \in Elem : ~has(other, x)}))

(***************************************************************************)
(* The set as a state machine.                                             *)
(***************************************************************************)
self == AlgaeSet(pos_conditions, neg_conditions)

\* has() of every element, as a function
Membership(s) == [x \in Elem |-> has(s, x)]

\* whether some exclusion predicate of s matches the element
Excluded(s, element) ==
    \E i \in DOMAIN s.neg_conditions : element \in s.neg_conditions[i]

NoMembers == [x \in Elem |-> FALSE]
Built     == [name |-> "new", element |-> 0, before |-> NoMembers,
              excluded |-> FALSE, operand |-> NoMembers, repeated |-> FALSE]
NotAsked  == [asked |-> FALSE, element |-> 0, value |-> FALSE]

CondLists == UNION {[1..n -> Conditions] : n \in 0..MaxNewConds}

\* what a caller can build from scratch
Constructed == {all} \cup {mono(c) : c \in Conditions}
                     \cup {new(cs) : cs \in CondLists}

\* the right-hand operands of or/and: a freshly built set, possibly with one
\* element added to it or removed from it
Operands == {mono(c) : c \in Conditions}
              \cup {add(mono(c), e) : c \in Conditions, e \in Elem}
              \cup {remove(mono(c), e) : c \in Conditions, e \in Elem}

Becomes(s, name, element, operand) ==
    /\ pos_conditions' = s.pos_conditions
    /\ neg_conditions' = s.neg_conditions
    /\ last_op' = [name |-> name, element |-> element,
                   before |-> Membership(self),
                   excluded |-> (name \in {"add", "remove"} /\ Excluded(self, element)),
                   operand |-> operand,
                   repeated |-> /\ name \in {"add", "remove"}
                                /\ last_op.name = name
                                /\ last_op.element = element]
    /\ has_result' = NotAsked
    /\ UNCHANGED opVars

InitSet ==
    /\ \E s \in Constructed :
          /\ pos_conditions = s.pos_conditions
          /\ neg_conditions = s.neg_conditions
    /\ last_op = Built
    /\ has_result = NotAsked

Room == Len(pos_conditions) + Len(neg_conditions) < MaxConds

Has(element) ==
    /\ has_result' = [asked |-> TRUE, element |-> element,
                      value |-> has(self, element)]
    /\ UNCHANGED <<pos_conditions, neg_conditions, last_op>>
    /\ UNCHANGED opVars

Add(element) == Room /\ Becomes(add(self, element), "add", element, NoMembers)

Remove(element) == Room /\ Becomes(remove(self, element), "remove", element, NoMembers)

Or(other) == Room /\ Becomes(or(self, other), "or", 0, Membership(other))

And(other) == Room /\ Becomes(and(self, other), "and", 0, Membership(other))

\* AlgaeSet::new / mono / all build the set InitSet starts from
NextSet ==
    \/ \E element \in Elem : Has(element)
    \/ \E element \in Elem : Add(element)
    \/ \E element \in Elem : Remove(element)
    \/ \E other \in Operands : Or(other)
    \/ \E other \in Operands : And(other)

(***************************************************************************)
(* The two specifications.  Each leaves the other component as built.      *)
(***************************************************************************)
IdleOp ==
    /\ kind = "AbelianOperation" /\ op = "add" /\ inv = "none" /\ identity = 0
    /\ history = <<>> /\ result = NoResult /\ calls = <<>> /\ prev_history = <<>>
    /\ query = NotQueried
    /\ structure = NoStructure
    /\ sample = NotSampled
    /\ callers = NoCallers

IdleSet ==
    /\ pos_conditions = <<>> /\ neg_conditions = <<>>
    /\ last_op = Built
    /\ has_result = NotAsked

OpInit == InitOp /\ IdleSet
SpecOp == OpInit /\ [][NextOp]_vars

SetInit == InitSet /\ IdleOp
SpecSet == SetInit /\ [][NextSet]_vars

(***************************************************************************)
(* SpecLaws: the operation wrappers again, over more functions and called  *)
(* with the arguments of the doc examples of mapping.rs rather than with   *)
(* 0..MaxVal.                                                              *)
(***************************************************************************)
\* with(1, 2), with(3, 4), with(4, 3), with(4, 2), with(2, 3), with(4, 5),
\* and a call with equal arguments, with(3, 3)
IntArguments == {<<1, 2>>, <<3, 4>>, <<4, 3>>, <<4, 2>>, <<2, 3>>, <<4, 5>>,
                 <<3, 3>>}

\* with(4.0, 2.0), with(3.0, 1.0)
FloatArguments == {<<Float(4), Float(2)>>, <<Float(3), Float(1)>>}

\* the identities of the doc examples (0, 1 and the wrong identity 3)
LawIdentities == Values \cup {3}

InitLaws ==
    /\ kind \in Kinds
    /\ op \in (OpNames \cup MoreOpNames
                \cup (IF kind \in KindsWithIdentity THEN {} ELSE FloatOpNames))
    /\ inv \in (IF kind \in KindsWithInverse THEN InvNames ELSE {"none"})
    /\ identity \in (IF kind \in KindsWithIdentity THEN LawIdentities ELSE {0})
    /\ history = <<>>
    /\ result = NoResult
    /\ calls = <<>>
    /\ prev_history = <<>>
    /\ query = NotQueried
    /\ structure = NoStructure
    /\ sample = NotSampled
    /\ callers = NoCallers

NextLaws ==
    \E args \in (IF op \in FloatOpNames THEN FloatArguments ELSE IntArguments) :
        With(args[1], args[2])

LawsInit == InitLaws /\ IdleSet
SpecLaws == LawsInit /\ [][NextLaws]_vars

(***************************************************************************)
(* SpecQuery: the queries made of an operation wrapper.  None of them      *)
(* reads or changes the history.                                           *)
(***************************************************************************)
\* the PropertyType values a caller can build
PropertyTypes ==
    {Commutative, Abelian, Associative, Cancellative}
      \cup {WithIdentity(e) : e \in LawIdentities}
      \cup {Invertible(e, f) : e \in LawIdentities, f \in InvNames}

\* a query and its outcome, as `query` records them
Asked(name, left, right, e, outcome) ==
    [name |-> name, left |-> left, right |-> right,
     identity |-> e, outcome |-> outcome]

\* what a query leaves alone: the operation (&self, &dyn BinaryOperation)
queried == <<kind, op, inv, identity, history, result, calls, prev_history,
             structure, sample, callers>>

\* left == right on two PropertyType values
Eq(left, right) ==
    /\ query' = Asked("eq", left, right, 0, Returned(eq(left, right)))
    /\ UNCHANGED <<queried, setVars>>

\* binop.is(property)
Is(property) ==
    /\ query' = Asked("is", property, property, 0,
                      Returned(is(properties(kind, identity, inv), property)))
    /\ UNCHANGED <<queried, setVars>>

BinopIsInvertible ==
    /\ query' = Asked("binop_is_invertible", Commutative, Commutative, 0,
                      Returned(binop_is_invertible(properties(kind, identity, inv))))
    /\ UNCHANGED <<queried, setVars>>

BinopHasInvertibleIdentity(e) ==
    /\ query' = Asked("binop_has_invertible_identity", Commutative, Commutative, e,
                      binop_has_invertible_identity(properties(kind, identity, inv), e))
    /\ UNCHANGED <<queried, setVars>>

NextQuery ==
    \/ \E left, right \in PropertyTypes : Eq(left, right)
    \/ \E property \in PropertyTypes : Is(property)
    \/ BinopIsInvertible
    \/ \E e \in LawIdentities : BinopHasInvertibleIdentity(e)

SpecQuery == LawsInit /\ [][NextQuery]_vars

(***************************************************************************)
(* SpecStructure: the named structures of magma.rs.  A structure holds an  *)
(* AlgaeSet and the &mut borrow of one operation wrapper; while it lives,  *)
(* the operation is called through it.  A failed assert! of a constructor  *)
(* panics, which ends the run.                                             *)
(***************************************************************************)
\* the sets handed to the constructors
StructureSets == {all, mono({0})}

\* with(1, 2) and with(2, 1)
StructureArguments == {<<1, 2>>, <<2, 1>>}

\* Xxx::new(aset, binop, identity) called when `made` calls had been made
Structure_new(name, aset, props, e, from, made) ==
    [name |-> name, aset |-> aset,
     identity |-> IF name \in StructuresWithIdentity THEN e ELSE 0,
     panicked |-> ~asserts_pass(name, props, e),
     from |-> from, calls_before |-> made]

Live == structure.name # "none" /\ ~structure.panicked

New(name, aset, e) ==
    /\ structure = NoStructure
    /\ structure' = Structure_new(name, aset, properties(kind, identity, inv), e,
                                  "new", Len(calls))
    /\ UNCHANGED <<kind, op, inv, identity, history, result, calls, prev_history, query,
                   sample>>
    /\ UNCHANGED <<callers, setVars>>

\* the Into / From impls: Target::new(self.aset, self.binop, self.identity)
Into(target) ==
    /\ Live
    /\ <<structure.name, target>> \in Conversions
    /\ structure' = Structure_new(target, structure.aset,
                                  properties(kind, identity, inv),
                                  structure.identity, structure.name, Len(calls))
    /\ UNCHANGED <<kind, op, inv, identity, history, result, calls, prev_history, query,
                   sample>>
    /\ UNCHANGED <<callers, setVars>>

\* a with that runs on a copy of the operation with an empty history
Magmoid_with_fresh_operation(self_, k, f, g, e, h, left, right) ==
    [history |-> h, result |-> with(k, f, g, e, <<>>, left, right).result]

\* a with that turns down arguments that are not members of the set
Magmoid_with_members_only(self_, k, f, g, e, h, left, right) ==
    IF has(self_.aset, left) /\ has(self_.aset, right)
    THEN with(k, f, g, e, h, left, right)
    ELSE [history |-> h, result |-> Err("NotAMember")]

\* Magmoid::with on the structure self_, whose binop() is the wrapper of
\* kind k holding f, g, e and history h: self.binop().with(left, right)
Magmoid_with(self_, k, f, g, e, h, left, right) ==
    with(k, f, g, e, h, left, right)

\* with on the operation itself, before a structure borrows it
DirectWith(left, right) ==
    /\ structure = NoStructure
    /\ With(left, right)

\* Magmoid::with on the structure
MagmoidWith(left, right) ==
    /\ Live
    /\ Len(calls) < MaxCalls
    /\ LET r == Magmoid_with(structure, kind, op, inv, identity, history,
                             left, right)
       IN  /\ history' = r.history
           /\ result' = r.result
           /\ calls' = Append(calls, [left |-> left, right |-> right,
                                      result |-> r.result])
    /\ prev_history' = history
    /\ UNCHANGED <<kind, op, inv, identity, query, structure, sample>>
    /\ UNCHANGED <<callers, setVars>>

NextStructure ==
    \/ \E name \in Structures, aset \in StructureSets, e \in Values : New(name, aset, e)
    \/ \E target \in Structures : Into(target)
    \/ \E args \in StructureArguments : DirectWith(args[1], args[2])
    \/ \E args \in StructureArguments : MagmoidWith(args[1], args[2])

SpecStructure == OpInit /\ [][NextStructure]_vars

(***************************************************************************)
(* SpecSampler: permutations(collection, group_size) applied to a          *)
(* collection that grows by one element before each call, as the history   *)
(* does, so that lengths that are not a multiple of the group size occur.  *)
(***************************************************************************)
SampleValues == 1..MaxSampleVal

Permutations(x, group_size) ==
    /\ Len(sample.collection) < MaxSampleLen
    /\ sample' = Sampling(Append(sample.collection, x), group_size)
    /\ UNCHANGED <<kind, op, inv, identity, history, result, calls, prev_history,
                   query, structure>>
    /\ UNCHANGED <<callers, setVars>>

NextSampler ==
    \E x \in SampleValues, group_size \in 1..MaxGroupSize : Permutations(x, group_size)

SamplerInit == IdleOp /\ IdleSet
SpecSampler == SamplerInit /\ [][NextSampler]_vars

(***************************************************************************)
(* Properties of the operation wrappers, checked under SpecOp.             *)
(***************************************************************************)
Called   == calls # <<>>
LastCall == calls[Len(calls)]

\* the declared laws of the wrapper, and whether each holds over a history
Declared == properties(kind, identity, inv)

LawHolds(tag, h) ==
    \A i \in DOMAIN Declared :
        Declared[i].tag = tag => holds_over(Declared[i], op, h)

Declares(tag) == \E i \in DOMAIN Declared : Declared[i].tag = tag

AllLawsHold(h) == \A i \in DOMAIN Declared : holds_over(Declared[i], op, h)

\* the arguments of the calls, flattened: l_1, r_1, l_2, r_2, ...
RECURSIVE ArgumentsOf(_)
ArgumentsOf(cs) ==
    IF cs = <<>> THEN <<>>
    ELSE ArgumentsOf(SubSeq(cs, 1, Len(cs) - 1))
           \o <<cs[Len(cs)].left, cs[Len(cs)].right>>

\* C1: a call returns Ok(op(left, right)) exactly when every declared law
\* holds over the history as it is after left and right were appended, and
\* an Err otherwise; the history the laws are checked over ends with the
\* two arguments of the call.
C1_ResultIsCheckOverUpdatedHistory ==
    Called =>
        /\ Len(history) >= 2
        /\ history[Len(history) - 1] = LastCall.left
        /\ history[Len(history)] = LastCall.right
        /\ (result.tag = "Ok") = AllLawsHold(history)
        /\ (result.tag = "Err") = ~AllLawsHold(history)
        /\ result.tag = "Ok" =>
               result.value = Apply(op, LastCall.left, LastCall.right)

\* a call that fails although every law held over the history before it
C1_Witness ==
    /\ Len(calls) >= 2
    /\ result.tag = "Err"
    /\ AllLawsHold(prev_history)
    /\ calls[Len(calls) - 1].result.tag = "Ok"

\* C2: after any calls, successful or failed, the history is exactly
\* l_1, r_1, ..., l_n, r_n: call order, left before right, duplicates kept,
\* nothing removed or reordered.
C2_HistoryIsArgumentsInCallOrder ==
    /\ history = ArgumentsOf(calls)
    /\ Len(history) = 2 * Len(calls)

\* three calls, the same arguments twice, some failed and some not
C2_Witness ==
    /\ Len(calls) = 3
    /\ calls[1].left = calls[2].left /\ calls[1].right = calls[2].right
    /\ calls[1].left = calls[1].right
    /\ \E i, j \in DOMAIN calls :
           calls[i].result.tag = "Ok" /\ calls[j].result.tag = "Err"

\* C3: a call that returns an error has appended left and right all the
\* same: the history is the one before the call followed by left, right.
C3_FailedCallStillAppends ==
    (Called /\ result.tag = "Err") =>
        history = prev_history \o <<LastCall.left, LastCall.right>>

C3_Witness ==
    /\ Called /\ result.tag = "Err"
    /\ prev_history # <<>>
    /\ Len(history) = Len(prev_history) + 2

\* C4: the error is that of the first failing law in declared order, each
\* law with its own error: Monoid and Group operations check Associative
\* before WithIdentity, Loop operations Cancellative before WithIdentity,
\* Invertible operations WithIdentity before Invertible.
C4_ErrorOfFirstFailingLaw ==
    Called =>
        LET fails(tag) == Declares(tag) /\ ~LawHolds(tag, history)
            err(name)  == result.tag = "Err" /\ result.error = name
        IN  /\ (fails("Commutative") \/ fails("Abelian")) => err("CommutativityError")
            /\ fails("Associative")  => err("AssociativityError")
            /\ fails("Cancellative") => err("CancellativityError")
            /\ (fails("WithIdentity") /\ ~fails("Associative") /\ ~fails("Cancellative"))
                   => err("IdentityError")
            /\ (fails("Invertible") /\ ~fails("Associative") /\ ~fails("WithIdentity"))
                   => err("InvertibilityError")
            /\ result.tag = "Err" =>
                   \E i \in DOMAIN Declared : ~holds_over(Declared[i], op, history)

\* two laws fail on the same call, and the earlier one is reported
C4_Witness ==
    /\ Called
    /\ kind \in {"MonoidOperation", "GroupOperation"}
    /\ ~LawHolds("Associative", history) /\ ~LawHolds("WithIdentity", history)
    /\ result = Err("AssociativityError")

\* C5: once a call has returned an error, every later call on the same
\* operation (a retry with the same arguments included) returns an error.
C5_ErrorsPersist ==
    [][(Called /\ result.tag = "Err") => result'.tag = "Err"]_vars

(***************************************************************************)
(* Properties of AlgaeSet, checked under SpecSet.                          *)
(***************************************************************************)
SomePosMatches(x) == \E i \in DOMAIN pos_conditions : x \in pos_conditions[i]
SomeNegMatches(x) == \E i \in DOMAIN neg_conditions : x \in neg_conditions[i]

\* C6: has(e) is true iff no exclusion predicate matches e and some
\* inclusion predicate matches e; it is false whenever an exclusion
\* predicate matches e, whatever the inclusion predicates say.
C6_HasIsIncludedAndNotExcluded ==
    has_result.asked =>
        /\ has_result.value =
               (~SomeNegMatches(has_result.element) /\ SomePosMatches(has_result.element))
        /\ SomeNegMatches(has_result.element) => ~has_result.value

\* has answered false for an element both lists match
C6_Witness ==
    /\ has_result.asked
    /\ SomeNegMatches(has_result.element) /\ SomePosMatches(has_result.element)
    /\ ~has_result.value

\* C7: immediately after add(e), has(e) is true, for every reachable set,
\* one from which e was just removed included.
C7_HasAfterAdd ==
    last_op.name = "add" => has(self, last_op.element)

\* e was excluded (and so not a member) when it was added
C7_Witness ==
    /\ last_op.name = "add"
    /\ last_op.excluded /\ ~last_op.before[last_op.element]
    /\ has(self, last_op.element)

\* C8: immediately after remove(e), has(e) is false, for every reachable
\* set, one to which e was just added included.
C8_NotHasAfterRemove ==
    last_op.name = "remove" => ~has(self, last_op.element)

\* e was a member when it was removed
C8_Witness ==
    /\ last_op.name = "remove"
    /\ last_op.before[last_op.element]
    /\ ~has(self, last_op.element)

\* C9: remove(e) changes the membership of e only: has(x) is the same
\* before and after it for every x other than e.
C9_RemoveChangesOnlyItsElement ==
    last_op.name = "remove" =>
        \A x \in Elem \ {last_op.element} : has(self, x) = last_op.before[x]

\* C10: after A.or(B), A.has(x) is true for every x that B.has(x) was true
\* of before the call.
C10_UnionIsInclusive ==
    last_op.name = "or" =>
        \A x \in Elem : last_op.operand[x] => has(self, x)

\* C11: after A.and(B), A.has(x) is true exactly of the x that A.has(x) and
\* B.has(x) were both true of before the call; in particular A.has(x) is
\* false wherever B.has(x) was false.
C11_IntersectionKeepsCommonElements ==
    last_op.name = "and" =>
        /\ \A x \in Elem : has(self, x) = (last_op.before[x] /\ last_op.operand[x])
        /\ \A x \in Elem : ~last_op.operand[x] => ~has(self, x)

\* an intersection that dropped one element of A and kept another
C11_Witness ==
    /\ last_op.name = "and"
    /\ \E x \in Elem : last_op.before[x] /\ ~last_op.operand[x] /\ ~has(self, x)
    /\ \E x \in Elem : last_op.before[x] /\ last_op.operand[x] /\ has(self, x)

\* the tuples of group_size elements sampled from the updated history
Sampled(group_size) ==
    LET windows == permutations(history, group_size)
    IN  {windows[i] : i \in DOMAIN windows}

\* the calls made so far had exactly these arguments, in this order
CallsWere(arguments) ==
    /\ Len(calls) = Len(arguments)
    /\ \A i \in DOMAIN calls :
           calls[i].left = arguments[i][1] /\ calls[i].right = arguments[i][2]

LastArguments == <<LastCall.left, LastCall.right>>

\* C12: on an operation declaring Commutative or Abelian, with fails with
\* CommutativityError exactly when some pair (a, b) sampled from the updated
\* history has op(a, b) # op(b, a).  So addition accepts with(1, 2) and then
\* with(3, 4), returning 3 and 7, and subtraction rejects with(1, 2) and
\* with(4, 3).
C12_CommutativityOverSampledPairs ==
    (Called /\ (Declares("Commutative") \/ Declares("Abelian"))) =>
        /\ (result = Err("CommutativityError"))
             = (\E pair \in Sampled(2) :
                    Apply(op, pair[1], pair[2]) # Apply(op, pair[2], pair[1]))
        /\ result.tag = "Err" => result.error = "CommutativityError"
        /\ (op = "add" /\ CallsWere(<<(<<1, 2>>), (<<3, 4>>)>>)) =>
               calls[1].result = Ok(3) /\ calls[2].result = Ok(7)
        /\ (op = "sub" /\ LastArguments \in {<<1, 2>>, <<4, 3>>}) =>
               result = Err("CommutativityError")

\* the addition of the doc example after with(1, 2) and with(3, 4)
C12_Witness ==
    /\ kind = "AbelianOperation" /\ op = "add"
    /\ CallsWere(<<(<<1, 2>>), (<<3, 4>>)>>)
    /\ calls[1].result = Ok(3) /\ result = Ok(7)

\* C13: on an operation declaring Associative, with fails with
\* AssociativityError exactly when some triple (a, b, c) sampled from the
\* updated history has op(op(a, b), c) # op(a, op(b, c)).  So for division
\* with(4, 2) succeeds and the following with(3, 1) fails, the window
\* (4, 2, 3) not being associative.
C13_AssociativityOverSampledTriples ==
    (Called /\ Declares("Associative")) =>
        /\ (result = Err("AssociativityError"))
             = (\E triple \in Sampled(3) :
                    Apply(op, Apply(op, triple[1], triple[2]), triple[3])
                      # Apply(op, triple[1], Apply(op, triple[2], triple[3])))
        /\ (op = "div" /\ CallsWere(<<(<<Float(4), Float(2)>>)>>)) =>
               result = Ok(Float(2))
        /\ (op = "div" /\ CallsWere(<<(<<Float(4), Float(2)>>), (<<Float(3), Float(1)>>)>>)) =>
               /\ calls[1].result = Ok(Float(2))
               /\ result = Err("AssociativityError")
               /\ <<Float(4), Float(2), Float(3)>> \in Sampled(3)
               /\ Apply(op, Apply(op, Float(4), Float(2)), Float(3))
                    # Apply(op, Float(4), Apply(op, Float(2), Float(3)))

\* the division of the doc example after with(4.0, 2.0) and with(3.0, 1.0)
C13_Witness ==
    /\ kind = "AssociativeOperation" /\ op = "div"
    /\ CallsWere(<<(<<Float(4), Float(2)>>), (<<Float(3), Float(1)>>)>>)
    /\ calls[1].result.tag = "Ok"
    /\ result = Err("AssociativityError")

\* the two ways a triple (a, b, c) can break cancellativity
LeftFormBroken(triple) ==
    /\ Apply(op, triple[1], triple[2]) = Apply(op, triple[1], triple[3])
    /\ triple[2] # triple[3]

RightFormBroken(triple) ==
    /\ Apply(op, triple[2], triple[1]) = Apply(op, triple[3], triple[1])
    /\ triple[2] # triple[3]

\* C14: on an operation declaring Cancellative, with fails with
\* CancellativityError exactly when some triple (a, b, c) sampled from the
\* updated history has op(a, b) = op(a, c) with b # c, or op(b, a) = op(c, a)
\* with b # c: both the left and the right form must hold.
C14_CancellativityOverSampledTriples ==
    (Called /\ Declares("Cancellative")) =>
        (result = Err("CancellativityError"))
          = (\E triple \in Sampled(3) :
                 LeftFormBroken(triple) \/ RightFormBroken(triple))

\* a call rejected for the left form alone: no sampled triple breaks the
\* right form
C14_Witness ==
    /\ Called /\ Declares("Cancellative")
    /\ result = Err("CancellativityError")
    /\ \E triple \in Sampled(3) : LeftFormBroken(triple)
    /\ \A triple \in Sampled(3) : ~RightFormBroken(triple)

\* some element anywhere in the updated history is not fixed by the identity
IdentityBroken ==
    \E i \in DOMAIN history :
        \/ Apply(op, identity, history[i]) # history[i]
        \/ Apply(op, history[i], identity) # history[i]

AssociativityBroken ==
    \E triple \in Sampled(3) :
        Apply(op, Apply(op, triple[1], triple[2]), triple[3])
          # Apply(op, triple[1], Apply(op, triple[2], triple[3]))

CancellativityBroken ==
    \E triple \in Sampled(3) : LeftFormBroken(triple) \/ RightFormBroken(triple)

\* a law declared before WithIdentity fails on the updated history
EarlierLawBroken ==
    \/ Declares("Associative") /\ AssociativityBroken
    \/ Declares("Cancellative") /\ CancellativityBroken

\* C15 as stated: on an operation declaring WithIdentity(e), with fails with
\* IdentityError exactly when some element x of the updated history has
\* op(e, x) # x or op(x, e) # x.
C15_IdentityErrorIffSomeElementBroken ==
    (Called /\ Declares("WithIdentity")) =>
        (result = Err("IdentityError")) = IdentityBroken

\* C15, amended: on an operation declaring WithIdentity(e), with fails with
\* IdentityError exactly when some element x anywhere in the updated history
\* has op(e, x) # x or op(x, e) # x and no law declared before WithIdentity
\* (Associative on Monoid and Group operations, Cancellative on Loop
\* operations) fails.  So addition declared with identity 3 fails with
\* IdentityError on every call, and with identity 0 never does.
C15_IdentityErrorUnlessEarlierLawFails ==
    (Called /\ Declares("WithIdentity")) =>
        /\ (result = Err("IdentityError")) = (IdentityBroken /\ ~EarlierLawBroken)
        /\ (op = "add" /\ identity = 3) => result = Err("IdentityError")
        /\ (op = "add" /\ identity = 0) =>
               /\ result # Err("IdentityError")
               /\ ~Declares("Invertible") =>
                      result = Ok(LastCall.left + LastCall.right)

\* an identity error on a first call, before any triple can be sampled, on
\* an operation that declares an earlier law
C15_Witness ==
    /\ Len(calls) = 1
    /\ kind \in {"MonoidOperation", "LoopOperation", "GroupOperation"}
    /\ Sampled(3) = {}
    /\ IdentityBroken
    /\ result = Err("IdentityError")

\* some sampled pair (a, b) breaks one of the three inverse equations
InvertibilityBroken ==
    \E pair \in Sampled(2) :
        \/ Apply(inv, pair[1], pair[1]) # identity
        \/ Apply(inv, Apply(op, pair[1], pair[2]), pair[2]) # pair[1]
        \/ Apply(inv, Apply(op, pair[2], pair[1]), pair[2]) # pair[1]

\* C16 as stated: on an operation declaring Invertible(e, inv) whose identity
\* check passes, with fails with InvertibilityError exactly when some sampled
\* pair breaks inv(a, a) = e, inv(op(a, b), b) = a or inv(op(b, a), b) = a.
C16_InvertibilityErrorIffSomePairBroken ==
    (Called /\ Declares("Invertible") /\ ~IdentityBroken) =>
        (result = Err("InvertibilityError")) = InvertibilityBroken

\* C16, amended: on an operation declaring Invertible(e, inv) whose identity
\* check passes and whose associativity check, where Associative is declared,
\* passes too, with fails with InvertibilityError exactly when some sampled
\* pair breaks inv(a, a) = e, inv(op(a, b), b) = a or inv(op(b, a), b) = a.
\* So addition with inverse subtraction and identity 0 accepts with(4, 3) = 7
\* and addition with inverse multiplication rejects with(4, 2).
C16_InvertibilityErrorWhenEarlierLawsPass ==
    (Called /\ Declares("Invertible")) =>
        /\ (~IdentityBroken /\ ~EarlierLawBroken) =>
               (result = Err("InvertibilityError")) = InvertibilityBroken
        /\ result = Err("InvertibilityError") =>
               InvertibilityBroken /\ ~IdentityBroken /\ ~EarlierLawBroken
        /\ (op = "add" /\ inv = "sub" /\ identity = 0 /\ LastArguments = <<4, 3>>) =>
               result = Ok(7)
        /\ (op = "add" /\ inv = "mul" /\ identity = 0 /\ LastArguments = <<4, 2>>) =>
               result = Err("InvertibilityError")

\* a group operation rejected for its inverse after three sampled triples and
\* the identity passed
C16_Witness ==
    /\ kind = "GroupOperation"
    /\ Len(calls) >= 2
    /\ ~IdentityBroken /\ ~AssociativityBroken
    /\ InvertibilityBroken
    /\ result = Err("InvertibilityError")

\* the two arguments of the first call
FirstBreaksIdentity ==
    \E x \in {calls[1].left, calls[1].right} :
        Apply(op, identity, x) # x \/ Apply(op, x, identity) # x

\* C17: a law whose tuple size exceeds the history length holds vacuously.
\* A call appends two values before checking, so the first call on a fresh
\* operation whose only laws are Associative and/or Cancellative returns
\* Ok(op(left, right)) whatever op and the arguments are, while the pair laws
\* and the identity law are checked from the first call on.
C17_TripleLawsVacuousOnFirstCall ==
    /\ Len(history) < 3 =>
           /\ holds_over(Associative, op, history)
           /\ holds_over(Cancellative, op, history)
    /\ (Called /\ kind \in {"AssociativeOperation", "CancellativeOperation"}) =>
           calls[1].result = Ok(Apply(op, calls[1].left, calls[1].right))
    /\ (Called /\ kind = "AbelianOperation"
          /\ Apply(op, calls[1].left, calls[1].right)
               # Apply(op, calls[1].right, calls[1].left)) =>
           calls[1].result = Err("CommutativityError")
    /\ (Called /\ Declares("WithIdentity") /\ FirstBreaksIdentity) =>
           calls[1].result = Err("IdentityError")
    /\ (Called /\ Declares("Invertible") /\ ~FirstBreaksIdentity
          /\ Apply(inv, calls[1].left, calls[1].left) # identity) =>
           calls[1].result = Err("InvertibilityError")

\* a first call accepted although the function breaks the law: the second
\* call, once a triple can be sampled, is rejected
C17_Witness ==
    /\ Len(calls) = 2
    /\ kind \in {"AssociativeOperation", "CancellativeOperation"}
    /\ calls[1].result = Ok(Apply(op, calls[1].left, calls[1].right))
    /\ calls[2].result.tag = "Err"

\* C18: equality of PropertyType values, and so is(property), ignores the
\* payloads: WithIdentity(x) equals WithIdentity(y) and Invertible(e1, f1)
\* equals Invertible(e2, f2) whatever the payloads are, and is(WithIdentity(i))
\* is true for every i once the operation declares WithIdentity with any
\* identity.
C18_EqualityIgnoresPayloads ==
    /\ (query.name = "eq" /\ query.left.tag = query.right.tag
          /\ query.left.tag \in {"WithIdentity", "Invertible"}) =>
           query.outcome = Returned(TRUE)
    /\ (query.name = "is" /\ query.left.tag \in {"WithIdentity", "Invertible"}) =>
           query.outcome = Returned(Declares(query.left.tag))

\* is(WithIdentity(i)) answered true for an i that is not the declared identity
C18_Witness ==
    /\ query.name = "is"
    /\ query.left.tag = "WithIdentity" /\ query.left.identity # identity
    /\ Declares("WithIdentity")
    /\ query.outcome = Returned(TRUE)

\* C19 as stated: two PropertyType values with different tags are never
\* equal, for every pair of distinct tags among Commutative, Abelian,
\* Associative, Cancellative, WithIdentity, Invertible.
C19_DifferentTagsNeverEqual ==
    (query.name = "eq" /\ query.left.tag # query.right.tag) =>
        query.outcome = Returned(FALSE)

\* C19, amended: two PropertyType values with different tags are never equal,
\* except that Commutative and Abelian are equal to each other.
C19_DifferentTagsEqualOnlyForCommutativeAbelian ==
    (query.name = "eq" /\ query.left.tag # query.right.tag) =>
        query.outcome
          = Returned({query.left.tag, query.right.tag} = {"Commutative", "Abelian"})

\* Commutative == Abelian was asked and answered true
C19_Witness ==
    /\ query.name = "eq"
    /\ query.left = Commutative /\ query.right = Abelian
    /\ query.outcome = Returned(TRUE)

\* C20: binop_has_invertible_identity(op, identity) returns true exactly when
\* the declared laws contain Invertible(e, _) with e = identity, false when
\* the Invertible law has another identity, and panics on its assertion when
\* no Invertible law is declared; binop_is_invertible(op) is true exactly
\* when an Invertible law is declared.
C20_InvertibleIdentityQuery ==
    LET invertible == {i \in DOMAIN Declared : Declared[i].tag = "Invertible"}
    IN  /\ query.name = "binop_has_invertible_identity" =>
               /\ (\E i \in invertible : Declared[i].identity = query.identity)
                      => query.outcome = Returned(TRUE)
               /\ (invertible # {}
                     /\ \A i \in invertible : Declared[i].identity # query.identity)
                      => query.outcome = Returned(FALSE)
               /\ invertible = {} => query.outcome = Panicked
        /\ query.name = "binop_is_invertible" =>
               query.outcome = Returned(invertible # {})

\* the helper asked of an operation whose Invertible law has another identity
C20_Witness ==
    /\ query.name = "binop_has_invertible_identity"
    /\ kind \in KindsWithInverse /\ identity # query.identity
    /\ query.outcome = Returned(FALSE)

\* the declared laws hold a law with this tag and, where the structure takes
\* an identity, with the structure's identity as its payload
DeclaresFor(tag) ==
    \E i \in DOMAIN Declared :
        /\ Declared[i].tag = tag
        /\ tag \in {"WithIdentity", "Invertible"} =>
               Declared[i].identity = structure.identity

\* the laws each named structure requires of its operation
RequiredLaws(name) ==
    CASE name = "Magma"       -> {}
      [] name = "UnitalMagma" -> {"WithIdentity"}
      [] name = "Groupoid"    -> {"Associative"}
      [] name = "Quasigroup"  -> {"Cancellative"}
      [] name = "Monoid"      -> {"Associative", "WithIdentity"}
      [] name = "Loop"        -> {"Cancellative", "WithIdentity"}
      [] name = "Group"       -> {"Associative", "WithIdentity", "Invertible"}
      [] OTHER                -> {}

\* C21: constructing a named structure with identity argument i completes
\* only if the operation's declared laws contain every law the structure
\* requires, the identity law carrying that same identity i; when a required
\* law or the matching identity is not declared, construction aborts.
C21_ConstructionRequiresLawsAndIdentity ==
    (structure.name # "none" /\ structure.from = "new") =>
        (~structure.panicked)
          = (\A tag \in RequiredLaws(structure.name) : DeclaresFor(tag))

\* C22: every conversion offered from a Monoid, a Loop or a Group to a
\* weaker structure succeeds for every constructed source, one built on the
\* library's MonoidOperation, LoopOperation or GroupOperation included, and
\* keeps the same set and identity.
C22_ConversionsSucceed ==
    structure.from \in {"Monoid", "Loop", "Group"} => ~structure.panicked

\* C23: with(a, b) on a named structure is pure delegation: it returns the
\* result and leaves the history that with(a, b) on the wrapped operation
\* gives, and since a converted structure shares the operation, calls after
\* a conversion are checked against the history accumulated before it.
C23_StructureWithDelegates ==
    (Live /\ Len(calls) > structure.calls_before) =>
        LET direct == with(kind, op, inv, identity, prev_history,
                           LastCall.left, LastCall.right)
        IN  /\ result = direct.result
            /\ history = direct.history
            /\ history = ArgumentsOf(calls)

\* a converted structure whose call fails on the history made before the
\* conversion: the same call on a fresh operation would be accepted
C23_Witness ==
    /\ Live /\ structure.from \in Structures
    /\ structure.calls_before >= 1
    /\ Len(calls) > structure.calls_before
    /\ result.tag = "Err"
    /\ with(kind, op, inv, identity, <<>>, LastCall.left, LastCall.right).result.tag = "Ok"

\* C24: remove is idempotent: after remove(e); remove(e) the set does not
\* have e and has, for every x, the same has(x) as after the first remove(e).
C24_RemoveIdempotent ==
    (last_op.name = "remove" /\ last_op.repeated) =>
        /\ ~has(self, last_op.element)
        /\ \A x \in Elem : has(self, x) = last_op.before[x]

\* a second remove(e) on a set that still has another element
C24_Witness ==
    /\ last_op.name = "remove" /\ last_op.repeated
    /\ ~has(self, last_op.element)
    /\ \E x \in Elem : has(self, x)

\* C25: AlgaeSet::all() has every element; AlgaeSet::new(conditions) starts
\* with an empty exclusion list and has x exactly when at least one of the
\* given conditions holds for x, so new of no condition is the empty set;
\* mono(c) has exactly the elements that satisfy c.
C25_Constructors ==
    /\ \A x \in Elem : has(all, x)
    /\ \A conditions \in CondLists :
           /\ new(conditions).neg_conditions = <<>>
           /\ \A x \in Elem :
                  has(new(conditions), x)
                    = (\E i \in DOMAIN conditions : x \in conditions[i])
    /\ \A x \in Elem : ~has(new(<<>>), x)
    /\ \A c \in Conditions : \A x \in Elem : has(mono(c), x) = (x \in c)
    /\ last_op.name = "new" =>
           /\ self \in {all} \cup {new(conditions) : conditions \in CondLists}
                        \cup {mono(c) : c \in Conditions}
           /\ neg_conditions = <<>>
           /\ has_result.asked =>
                  has_result.value
                    = (\E i \in DOMAIN pos_conditions :
                           has_result.element \in pos_conditions[i])

\* a set built by new from two conditions, asked for an element that only
\* the second condition holds for
C25_Witness ==
    /\ last_op.name = "new"
    /\ Len(pos_conditions) = 2
    /\ has_result.asked /\ has_result.value
    /\ has_result.element \notin pos_conditions[1]
    /\ has_result.element \in pos_conditions[2]

\* C26: permutations(seq, k), for k >= 1 and a sequence of length n, returns
\* exactly 2 * floor(n / k) tuples of length k: first the blocks
\* seq[i*k .. i*k+k) for i = 0 .. floor(n/k)-1 in order, then the blocks of
\* the reversed sequence taken the same way; a trailing block shorter than k
\* is dropped in each half.  For [1, 2, 3] and k = 2 it is [[1, 2], [3, 2]].
C26_SamplerReturnsBlocksOfBothDirections ==
    sample.group_size >= 1 =>
        LET seq    == sample.collection
            k      == sample.group_size
            n      == Len(seq)
            blocks == n \div k
            tuples == sample.groupings
        IN  /\ Len(tuples) = 2 * blocks
            /\ \A j \in DOMAIN tuples : Len(tuples[j]) = k
            /\ \A i \in 0..(blocks - 1) : \A m \in 1..k :
                   /\ tuples[i + 1][m] = seq[i * k + m]
                   /\ tuples[blocks + i + 1][m] = seq[n + 1 - (i * k + m)]
            /\ (seq = <<1, 2, 3>> /\ k = 2) => tuples = <<(<<1, 2>>), (<<3, 2>>)>>

\* the sampler called on [1, 2, 3] with group size 2
C26_Witness ==
    /\ sample.collection = <<1, 2, 3>> /\ sample.group_size = 2
    /\ sample.groupings = <<(<<1, 2>>), (<<3, 2>>)>>

\* the tuples of the last call of the sampler, as a set
Groupings == {sample.groupings[j] : j \in DOMAIN sample.groupings}

AllCallsOk == \A n \in DOMAIN calls : calls[n].result.tag = "Ok"

\* the windows of group_size elements sampled by the n-th call, whose updated
\* history was the first 2n elements of the present one
SampledAt(n, group_size) ==
    LET windows == permutations(SubSeq(history, 1, 2 * n), group_size)
    IN  {windows[i] : i \in DOMAIN windows}

Commutes(a, b) == Apply(op, a, b) = Apply(op, b, a)

Associates(a, b, c) ==
    Apply(op, Apply(op, a, b), c) = Apply(op, a, Apply(op, b, c))

C27_WitnessAssociative ==
    /\ kind = "AssociativeOperation" /\ Len(calls) >= 2 /\ AllCallsOk
    /\ \E i, j, k \in DOMAIN history :
           /\ i # j /\ j # k /\ i # k
           /\ ~Associates(history[i], history[j], history[k])

\* the arguments of every call made so far, in both orders
CallPairs ==
    {<<calls[n].left, calls[n].right>> : n \in DOMAIN calls}
      \cup {<<calls[n].right, calls[n].left>> : n \in DOMAIN calls}

C30_AddChangesOnlyItsElement ==
    last_op.name = "add" =>
        \A x \in Elem \ {last_op.element} : has(self, x) = last_op.before[x]

(***************************************************************************)
(* SpecGroup: the two wrappers that declare Invertible, over genuine       *)
(* groups: the integers under addition (inverse function: subtraction) and *)
(* the permutations of three letters under composition.                    *)
(***************************************************************************)
IdentityPermutation == <<1, 2, 3>>
Transposition       == <<2, 1, 3>>
Cycle               == <<2, 3, 1>>

\* the permutations the calls are made with
PermutationArguments ==
    {IdentityPermutation, Transposition, Cycle}
        \X {IdentityPermutation, Transposition, Cycle}

\* every permutation of the three letters
AllPermutations ==
    {p \in [DOMAIN IdentityPermutation -> DOMAIN IdentityPermutation] :
        \A i, j \in DOMAIN p : p[i] = p[j] => i = j}

InitGroup ==
    /\ kind \in KindsWithInverse
    /\ \E group \in {<<"add", "sub", 0>>,
                     <<"compose", "compose_inverse", IdentityPermutation>>} :
           op = group[1] /\ inv = group[2] /\ identity = group[3]
    /\ history = <<>>
    /\ result = NoResult
    /\ calls = <<>>
    /\ prev_history = <<>>
    /\ query = NotQueried
    /\ structure = NoStructure
    /\ sample = NotSampled
    /\ callers = NoCallers

NextGroup ==
    \E args \in (IF op \in GroupOpNames THEN PermutationArguments
                 ELSE IntArguments) :
        With(args[1], args[2])

GroupInit == InitGroup /\ IdleSet
SpecGroup == GroupInit /\ [][NextGroup]_vars

\* the integers the calls are made with, and their negatives
SomeIntegers ==
    LET arguments == {args[1] : args \in IntArguments}
                         \cup {args[2] : args \in IntArguments}
    IN  {0} \cup arguments \cup {0 - a : a \in arguments}

\* op is a group operation with identity e and inv(x, y) = op(x, inverse of y),
\* on the elements a call's arguments are drawn from
GenuineGroup ==
    LET D == IF op \in GroupOpNames THEN AllPermutations ELSE SomeIntegers
    IN  /\ \A a, b, c \in D :
               Apply(op, Apply(op, a, b), c) = Apply(op, a, Apply(op, b, c))
        /\ \A a \in D : Apply(op, a, identity) = a /\ Apply(op, identity, a) = a
        /\ \A a \in D : \E b \in D :
               /\ Apply(op, a, b) = identity /\ Apply(op, b, a) = identity
               /\ \A x \in D : Apply(inv, x, a) = Apply(op, x, b)

\* C31: on a GroupOperation or InvertibleOperation over a genuine group
\* (associative, two-sided identity, every element invertible, inv(x, y) =
\* op(x, inverse of y)), commutative or not, every call with(a, b) returns
\* Ok(op(a, b)).
C31_GenuineGroupNeverRejected ==
    (kind \in KindsWithInverse /\ GenuineGroup) =>
        \A n \in DOMAIN calls :
            calls[n].result = Ok(Apply(op, calls[n].left, calls[n].right))

\* the elements the calls of SpecLaws draw their arguments from
LawDomain ==
    LET arguments == IF op \in FloatOpNames THEN FloatArguments ELSE IntArguments
    IN  {args[1] : args \in arguments} \cup {args[2] : args \in arguments}

\* op satisfies the law for ALL elements of the domain
SatisfiedByAll(tag) ==
    CASE tag \in {"Commutative", "Abelian"} ->
             \A a, b \in LawDomain : Apply(op, a, b) = Apply(op, b, a)
      [] tag = "Associative" ->
             \A a, b, c \in LawDomain :
                 Apply(op, Apply(op, a, b), c) = Apply(op, a, Apply(op, b, c))
      [] tag = "Cancellative" ->
             \A a, b, c \in LawDomain :
                 /\ Apply(op, a, b) = Apply(op, a, c) => b = c
                 /\ Apply(op, b, a) = Apply(op, c, a) => b = c
      [] tag = "WithIdentity" ->
             \A a \in LawDomain :
                 Apply(op, a, identity) = a /\ Apply(op, identity, a) = a

ErrorOfTag(tag) ==
    CASE tag \in {"Commutative", "Abelian"} -> "CommutativityError"
      [] tag = "Associative"  -> "AssociativityError"
      [] tag = "Cancellative" -> "CancellativityError"
      [] tag = "WithIdentity" -> "IdentityError"

\* C32: no false rejection.  If op satisfies a declared law (commutative,
\* associative, left- and right-cancellative, e a two-sided identity) for
\* all elements of the domain, no call, after any sequence of calls,
\* returns that law's error.
C32_NoFalseRejection ==
    \A tag \in {"Commutative", "Abelian", "Associative", "Cancellative",
                "WithIdentity"} :
        (Declares(tag) /\ SatisfiedByAll(tag)) =>
            \A n \in DOMAIN calls : calls[n].result # Err(ErrorOfTag(tag))

\* multiplication declared Associative and with identity 1, called until
\* triples of the history are checked, and never failing
C32_Witness ==
    /\ kind = "MonoidOperation" /\ op = "mul" /\ identity = 1
    /\ SatisfiedByAll("Associative") /\ SatisfiedByAll("WithIdentity")
    /\ Len(calls) = MaxCalls
    /\ \A n \in DOMAIN calls : calls[n].result.tag = "Ok"

\* the wrappers whose declared laws are only Commutative/Abelian,
\* WithIdentity and/or Invertible
PairLawKinds == {"AbelianOperation", "IdentityOperation", "InvertibleOperation"}

\* C33: on an operation whose declared laws are only Commutative/Abelian,
\* WithIdentity and/or Invertible, once any call has returned an error every
\* later call on that instance returns an error as well, whatever its own
\* two arguments are.
C33_EarlierEvidenceFailsLaterCalls ==
    kind \in PairLawKinds =>
        \A n, m \in DOMAIN calls :
            (n < m /\ calls[n].result.tag = "Err") => calls[m].result.tag = "Err"

\* subtraction declared Commutative: with(1, 2) fails, and with(3, 3) fails
\* after it although its own two arguments satisfy every declared law
C33_Witness ==
    /\ kind = "AbelianOperation" /\ op = "sub"
    /\ CallsWere(<<<<1, 2>>, <<3, 3>>>>)
    /\ calls[1].result = Err("CommutativityError")
    /\ AllLawsHold(<<LastCall.left, LastCall.right>>)
    /\ LastCall.result = Err("CommutativityError")

\* the sets a structure may hold instead of its own: those handed to the
\* constructors, the empty set, and the set of the last call's arguments
\* and product
OtherSets ==
    StructureSets
      \cup {new(<<>>),
            mono({LastCall.left, LastCall.right,
                  Apply(op, LastCall.left, LastCall.right)})}

\* C34: the set held by a named structure never influences with: a
\* structure over the same operation state that differs only in its
\* AlgaeSet returns the same result from with(a, b) and leaves the same
\* history, whether or not a, b or op(a, b) are members of the set.
C34_SetNeverInfluencesWith ==
    (Live /\ Len(calls) > structure.calls_before) =>
        \A aset \in OtherSets :
            Magmoid_with([structure EXCEPT !.aset = aset], kind, op, inv,
                         identity, prev_history, LastCall.left, LastCall.right)
              = [history |-> history, result |-> result]

\* a call accepted although neither argument nor the product is a member of
\* the structure's set, while some other set has all three
C34_Witness ==
    /\ Live /\ Len(calls) > structure.calls_before
    /\ ~has(structure.aset, LastCall.left)
    /\ ~has(structure.aset, LastCall.right)
    /\ ~has(structure.aset, Apply(op, LastCall.left, LastCall.right))
    /\ \E aset \in OtherSets :
           /\ has(aset, LastCall.left) /\ has(aset, LastCall.right)
           /\ has(aset, Apply(op, LastCall.left, LastCall.right))
    /\ result = Ok(Apply(op, LastCall.left, LastCall.right))
    /\ history = prev_history \o <<LastCall.left, LastCall.right>>

\* the declared law list holds every law the structure `made` requires,
\* with the identity of `made` where the law carries one
DeclaredLawsSuffice(made) ==
    \A tag \in RequiredLaws(made.name) :
        \E i \in DOMAIN Declared :
            /\ Declared[i].tag = tag
            /\ tag \in {"WithIdentity", "Invertible"} =>
                   Declared[i].identity = made.identity

\* C35: constructing a named structure (by new or by a conversion) looks at
\* the declared law list only and never at the operation's behaviour: it
\* leaves the operation's history, and the result and record of its calls,
\* unchanged, and it completes whenever the declared laws are the required
\* ones, whether or not the operation satisfies them.
C35_ConstructionChecksDeclaredLawsOnly ==
    [][structure' # structure =>
          /\ UNCHANGED <<history, result, calls, prev_history>>
          /\ DeclaredLawsSuffice(structure') => ~structure'.panicked]_vars

\* Monoid over MonoidOperation(addition, identity 1): constructed, and the
\* violation surfaces as the Err of the with(1, 2) that follows
C35_Witness ==
    /\ kind = "MonoidOperation" /\ op = "add" /\ identity = 1
    /\ Live /\ structure.name = "Monoid" /\ structure.from = "new"
    /\ structure.identity = 1
    /\ structure.calls_before = 0
    /\ CallsWere(<<<<1, 2>>>>)
    /\ result = Err("IdentityError")

(***************************************************************************)
(* SpecInterleaved: two calls of with on one shared, freshly built         *)
(* operation, each taken apart into the three statements of its body:      *)
(* self.cache(left), self.cache(right), and the loop over properties()     *)
(* that returns the Result.  The statements of the two calls interleave    *)
(* freely.  (with takes &mut self, so only code that gets around the       *)
(* exclusive borrow can run the calls this way.)                           *)
(***************************************************************************)
\* self.cache(left): the call begins
CacheLeft(c, left, right) ==
    /\ callers[c].pc = "idle"
    /\ history' = cache(history, left)
    /\ callers' = [callers EXCEPT ![c] =
                       [pc |-> "cached_left", left |-> left, right |-> right,
                        before |-> history, checked |-> <<>>,
                        result |-> NoResult]]
    /\ UNCHANGED <<kind, op, inv, identity, result, calls, prev_history, query,
                   structure, sample>>
    /\ UNCHANGED setVars

\* self.cache(right)
CacheRight(c) ==
    /\ callers[c].pc = "cached_left"
    /\ history' = cache(history, callers[c].right)
    /\ callers' = [callers EXCEPT ![c].pc = "cached_right"]
    /\ UNCHANGED <<kind, op, inv, identity, result, calls, prev_history, query,
                   structure, sample>>
    /\ UNCHANGED setVars

\* the loop over properties() and the return
CheckLaws(c) ==
    /\ callers[c].pc = "cached_right"
    /\ LET r == verdict(kind, op, inv, identity, history,
                        callers[c].left, callers[c].right)
       IN  /\ callers' = [callers EXCEPT ![c].pc = "returned",
                                         ![c].checked = history,
                                         ![c].result = r]
           /\ result' = r
           /\ calls' = Append(calls, [left |-> callers[c].left,
                                      right |-> callers[c].right, result |-> r])
    /\ prev_history' = callers[c].before
    /\ UNCHANGED <<kind, op, inv, identity, history, query, structure, sample>>
    /\ UNCHANGED setVars

NextInterleaved ==
    \/ \E c \in Callers, left, right \in Values : CacheLeft(c, left, right)
    \/ \E c \in Callers : CacheRight(c)
    \/ \E c \in Callers : CheckLaws(c)

SpecInterleaved == OpInit /\ [][NextInterleaved]_vars

\* the other caller
Other(c) == CHOOSE d \in Callers : d # c

\* what caller c's call returns when the two calls run one after the other
\* on the fresh operation: c's call first, and c's call second
AloneFirst(c) ==
    with(kind, op, inv, identity, <<>>, callers[c].left, callers[c].right)
AloneSecond(c) ==
    with(kind, op, inv, identity, AloneFirst(Other(c)).history,
         callers[c].left, callers[c].right)

\* no statement of the other call ran between c's first append and its check
Uninterrupted(c) ==
    callers[c].checked
      = callers[c].before \o <<callers[c].left, callers[c].right>>

\* C36: with is atomic only as a whole.  A call none of whose statements is
\* separated from the next by a statement of the other call returns what
\* with returns on the history the call began with; a call that is
\* interleaved with the other at the granularity of the appends and the law
\* check is checked over a history no sequential order produces, and its
\* outcome can differ from its outcome in both sequential orders.
C36_OnlyUninterruptedCallsAreSequential ==
    \A c \in Callers :
        (callers[c].pc = "returned" /\ Uninterrupted(c)) =>
            /\ callers[c].result
                 = with(kind, op, inv, identity, callers[c].before,
                        callers[c].left, callers[c].right).result
            /\ callers[c].before \in {<<>>, AloneFirst(Other(c)).history}
                  => callers[c].result
                       \in {AloneFirst(c).result, AloneSecond(c).result}

\* both calls have returned, their appended values are interleaved in the
\* history, and one call's accept/reject outcome is neither its outcome
\* when it runs first nor its outcome when it runs second
C36_Witness ==
    /\ \A c \in Callers : callers[c].pc = "returned"
    /\ \E c \in Callers :
           /\ ~Uninterrupted(c)
           /\ callers[c].result.tag # AloneFirst(c).result.tag
           /\ callers[c].result.tag # AloneSecond(c).result.tag

====
